---- MODULE Spec2Model ----
(***************************************************************************)
(* Model of the CCTV violation monitor (src/main.py, src/cctv/main.py,     *)
(* src/data.py): the polling loop, the subscriber registry, the alert      *)
(* fan-out and the tiered delivery of one alert.                           *)
(*                                                                         *)
(* Spec        the ID-based monitor of src/main.py: one polling thread     *)
(*             (monitor_sql_db) and the caller-side operations             *)
(*             start_monitoring / stop_monitoring / main, over the two     *)
(*             Snowflake tables.                                           *)
(* SpecDash    Spec, with the dashboard (src/streamlit_app.py) adding and  *)
(*             removing numbers in the store behind the monitor's back.    *)
(* SpecFault   the monitor over a store whose resync query may fail and    *)
(*             whose number list the dashboard changes.                    *)
(* SpecPurge   the polling thread alone over a store the dashboard         *)
(*             changes: rows deleted, numbers added and removed.           *)
(* SpecRegistry the subscribe/unsubscribe entry points alone, called with  *)
(*             well-formed and malformed numbers over a store that may     *)
(*             fail.                                                       *)
(* SpecLive    the monitor with a fairly scheduled polling thread.         *)
(* SpecStore   DataParser.add_chat_id / remove_chat_id, one call at a time.*)
(* SpecAdders  add_chat_id calls of the monitor and of the dashboard       *)
(*             interleaved between their SELECT and their INSERT.          *)
(* SpecCases   update_resolved_status, get_unresolved_records and          *)
(*             get_status over the violation table.                        *)
(* SpecAlert   one call of send_new_violation_alert, one step per HTTP     *)
(*             send.                                                       *)
(* SpecLegacy  the count-based monitor of src/cctv/main.py, where          *)
(*             start_monitoring itself starts the polling thread.          *)
(* SpecLegacyPoll  the same monitor, one thread polling while rows are     *)
(*             inserted and deleted.                                       *)
(* SpecIndex   the case lists of the bot and of the dashboard and the      *)
(*             actions taken by row_index.                                 *)
(* SpecIdent   _get_record_identifier and the scan of a fetch over rows    *)
(*             with and without an id.                                     *)
(* SpecDemo    demo_command beside the polling loop.                       *)
(***************************************************************************)
EXTENDS Integers, Sequences, FiniteSets, TLC

\* ------------------------------------------------------------------ bounds
MaxId == 2          \* violation rows ever inserted (ids are never reused)
MaxAlerts == 2      \* cap of the per-(record, chat) attempt counter
MaxThreads == 2     \* polling threads the legacy monitor may have started
MaxRows == 2        \* rows of the table in SpecIdent

\* ------------------------------------------------------- program constants
SyncEvery == 12     \* src/main.py:323  if self.sync_cycle_counter >= 12
DefaultChat == "96370843"       \* src/main.py:201 fallback subscriber
Addr == {"96370843", "6581899220"}
RecId == 1..MaxId

\* Strings a caller may pass that are not phone numbers: too short, not
\* digits.
BadAddr == {"1234567", "invalid_id"}
AnyAddr == Addr \cup BadAddr

\* The characters of the strings above.
Chars(a) ==
    CASE a = "96370843" -> <<"9", "6", "3", "7", "0", "8", "4", "3">>
      [] a = "6581899220"
           -> <<"6", "5", "8", "1", "8", "9", "9", "2", "2", "0">>
      [] a = "1234567" -> <<"1", "2", "3", "4", "5", "6", "7">>
      [] a = "invalid_id"
           -> <<"i", "n", "v", "a", "l", "i", "d", "_", "i", "d">>

Digit == {"0", "1", "2", "3", "4", "5", "6", "7", "8", "9"}

VARIABLES
    table,               \* SWINE_NEW_ALERT: the rows, in store order (ids)
    next_id,             \* ids issued so far (uuid4 never repeats)
    chat_rows,           \* WHATSAPP_CHAT_IDS: chat -> none | active | inactive
                         \* | twice (two rows of the same CHAT_ID)
    monitoring_active,   \* ViolationMonitor.monitoring_active
    active_chat_ids,     \* ViolationMonitor.active_chat_ids
    last_record_count,   \* ViolationMonitor.last_record_count
    sync_cycle_counter,  \* ViolationMonitor.sync_cycle_counter
    main_done,           \* main() has run
    pc,                  \* position of the monitor_sql_db thread
    fresh_chat_ids,      \* local of sync_chat_ids (the query's result)
    last_cycle,          \* history: how the cycle just ended, "none" once the
                         \* next one has begun
    seen_record_ids,     \* local of monitor_sql_db
    new_records,         \* local of monitor_sql_db (this cycle's batch)
    current_record_ids,  \* local of monitor_sql_db
    rec_i,               \* index of the record being dispatched
    it_set,              \* the chat set as it was when the inner for began
    it_done,             \* chats the inner for has yielded so far
    it_raised,           \* history: chats of it_done whose alert call raised
    stable,              \* history: chats registered all through the dispatch
    sent,                \* send_new_violation_alert calls per <<id, chat>>
    present_at_start,    \* history: ids in the store when the loop was started
    last_call,           \* history: the last start/stop call, and next_id then
    alert_pc,            \* send_new_violation_alert: the send it is at
    alert_img,           \* the record of the call has an image_url
    alert_log,           \* the sends the call has made: <<tier, outcome>>
    threads,             \* legacy: monitor_csv_file threads, tid -> position
    reply,               \* SWINE_NEW_ALERT.REPLY of each row, by id
    upd,                 \* update_resolved_status: where the call is, the id
                         \* it took from its fetch, and what it returned
    adding,              \* DataParser.add_chat_id calls between their SELECT
                         \* COUNT and their INSERT: caller -> chat
    shown,               \* the case list a user is looking at: the pairs
                         \* <<row_index, id>> of the records displayed
    demo                 \* demo_command: where the call is, the chat that
                         \* asked and the id add_demo_violation wrote

monVars == <<monitoring_active, active_chat_ids, last_record_count,
             sync_cycle_counter, main_done>>
storeVars == <<table, next_id, chat_rows>>
loopVars == <<pc, fresh_chat_ids, last_cycle, seen_record_ids,
              new_records,
              current_record_ids, rec_i,
              it_set, it_done, it_raised, stable>>
histVars == <<sent, present_at_start, last_call>>
alertVars == <<alert_pc, alert_img, alert_log>>
legacyVars == <<threads>>
caseVars == <<reply, upd, shown, demo>>
vars == <<storeVars, monVars, loopVars, histVars, alertVars, legacyVars,
          caseVars, adding>>

\* ----------------------------------------------------------------- helpers
Range(s) == {s[i] : i \in 1..Len(s)}

RECURSIVE SelectIdx(_, _, _)
SelectIdx(s, keep, i) ==
    IF i > Len(s) THEN <<>>
    ELSE (IF keep[i] THEN <<s[i]>> ELSE <<>>) \o SelectIdx(s, keep, i + 1)

RemoveRow(s, r) == SelectIdx(s, [i \in 1..Len(s) |-> s[i] # r], 1)


\* -------------------------------------------------- src/data.py: the store
\* DataParser.get_active_chat_ids on a successful query (as the set its
\* callers make of it).
ActiveChats(rows) == {a \in Addr : rows[a] \in {"active", "twice"}}

\* str.isdigit: at least one character, all of them digits.
isdigit(cs) == cs # <<>> /\ \A i \in 1..Len(cs) : cs[i] \in Digit

\* The test both add_chat_id functions begin with: digits only, 8 to 15.
WellFormed(a) ==
    /\ isdigit(Chars(a))
    /\ 8 <= Len(Chars(a))
    /\ Len(Chars(a)) <= 15

\* DataParser.add_chat_id on a working connection: a malformed number is
\* turned away before the store is touched; a chat that has a row (active
\* or not) is left alone and False is returned.
AddChatRows(rows, a) ==
    IF ~WellFormed(a) \/ rows[a] # "none" THEN rows
    ELSE [rows EXCEPT ![a] = "active"]

AddChatRet(rows, a) == WellFormed(a) /\ rows[a] = "none"

\* DataParser.remove_chat_id on a working connection: UPDATE ... SET ACTIVE =
\* false; the row is kept. A string that has no row matches nothing.
RemoveChatRows(rows, a) ==
    IF a \notin DOMAIN rows \/ rows[a] = "none" THEN rows
    ELSE [rows EXCEPT ![a] = IF @ \in {"twice", "twice_inactive"}
                             THEN "twice_inactive" ELSE "inactive"]

\* The REPLY column: NULL, what the code writes, and what older data holds.
Null == "<null>"
ReplyVal == {Null, "true", "false", "True", " true"}

\* str.lower / SQL LOWER and str.strip on the values above.
Lower(v) == IF v = "True" THEN "true" ELSE v
Strip(v) == IF v = " true" THEN "true" ELSE v

\* The value update_resolved_status writes for the opposite flag.
ReplyOf_negated(resolved) == IF resolved THEN "false" ELSE "true"

\* str(resolved).lower(), the value every writer puts in REPLY.
ReplyOf(resolved) == IF resolved THEN "true" ELSE "false"

\* ViolationRecord.from_snowflake_row: resolved =
\* (row[5] or "").strip().lower() == "true".
Resolved(v) == Lower(Strip(IF v = Null THEN "" ELSE v)) = "true"

\* The WHERE of get_unresolved_records: REPLY IS NULL OR LOWER(REPLY) !=
\* 'true'.
SqlUnresolved(v) == v = Null \/ Lower(v) # "true"

\* remove_chat_id that reports only the rows it has switched off.
RemoveChatRet_active(rows, a) == a \in DOMAIN rows /\ rows[a] = "active"

\* What remove_chat_id returns on a working connection: rc > 0, the UPDATE
\* having matched the rows of the CHAT_ID, active or not.
RemoveChatRet(rows, a) == a \in DOMAIN rows /\ rows[a] # "none"

\* What a store call can do: work, fail to connect (get_snowflake_connection
\* is outside the try, so the exception reaches the caller) or fail in the
\* query (caught inside, an empty/False result is returned).
DbOutcome == {"ok", "conn_fail", "query_fail"}

\* ---------------------------------------------- src/main.py: pure helpers
\* ViolationMonitor._get_record_identifier for a row that has an id.
RecordIdentifier(r) == <<"id_", r>>

IdentifiersOf(s) == {RecordIdentifier(s[i]) : i \in 1..Len(s)}

\* A scan that puts each new row in front of those found before it.
RECURSIVE NewRecords_rev(_, _, _)
NewRecords_rev(s, seen, i) ==
    IF i > Len(s) THEN <<>>
    ELSE IF RecordIdentifier(s[i]) \in seen
         THEN NewRecords_rev(s, seen, i + 1)
         ELSE NewRecords_rev(s, seen \cup {RecordIdentifier(s[i])}, i + 1)
                \o <<s[i]>>

\* The scan of monitor_sql_db lines 337-344: the rows of the fetch whose
\* identifier is not in seen, in fetch order, each identifier once.
RECURSIVE NewRecords(_, _, _)
NewRecords(s, seen, i) ==
    IF i > Len(s) THEN <<>>
    ELSE IF RecordIdentifier(s[i]) \in seen
         THEN NewRecords(s, seen, i + 1)
         ELSE <<s[i]>>
                \o NewRecords(s, seen \cup {RecordIdentifier(s[i])}, i + 1)

\* The rows of a fetch that from_snowflake_row does not give as resolved.
UnresolvedRows(s, rep) == {i \in 1..Len(s) : ~Resolved(rep[s[i]])}

\* A status that counts as resolved the rows whose REPLY is 'true' to the
\* letter.
get_status_literal ==
    [total_violations |-> Len(table),
     unresolved |-> Cardinality(UnresolvedRows(table, reply)),
     resolved |-> Cardinality({i \in 1..Len(table) :
                                  reply[table[i]] = "true"}),
     resolution_rate |->
        IF Len(table) # 0
        THEN [num |-> Cardinality({i \in 1..Len(table) :
                                      reply[table[i]] = "true"}) * 100,
              den |-> Len(table)]
        ELSE 0,
     monitoring_active |-> monitoring_active,
     active_subscribers |-> Cardinality(active_chat_ids)]

\* ViolationMonitor.get_status. resolution_rate, a float in the code, is
\* kept as the fraction it is computed from (times 100).
get_status ==
    [total_violations |-> Len(table),
     unresolved |-> Cardinality(UnresolvedRows(table, reply)),
     resolved |-> Len(table) - Cardinality(UnresolvedRows(table, reply)),
     resolution_rate |->
        IF Len(table) # 0
        THEN [num |-> (Len(table) - Cardinality(UnresolvedRows(table, reply)))
                        * 100,
              den |-> Len(table)]
        ELSE 0,
     monitoring_active |-> monitoring_active,
     active_subscribers |-> Cardinality(active_chat_ids)]

\* The history record of a registry call: what it was and, for the two
\* calls that open a period (a start on an empty registry, the stop of the
\* last address) and for the add_chat_id calls, the chat and the number of
\* ids issued when it was made.
AddTags == {"add_true", "add_false", "add_raised",
            "store_add_true", "store_add_false", "store_add_raised",
            "store_remove_true", "store_remove_false", "store_remove_raised"}

Call(what, a) ==
    IF what \in {"start_empty", "stop_last"} \cup AddTags
    THEN [op |-> what, chat |-> a, mark |-> next_id]
    ELSE [op |-> what, chat |-> "", mark |-> 0]

\* A polling loop exists and has not returned.
LoopRunning == pc \notin {"none", "done"}

\* ------------------------------------------------- src/main.py: the callers
\* A start_monitoring that takes the snapshot anew on every call, as if each
\* call began a polling loop of its own.
start_monitoring_resnap(a, db, parse_ok) ==
    /\ db # "conn_fail"
    /\ chat_rows' = IF db = "ok" THEN AddChatRows(chat_rows, a) ELSE chat_rows
    /\ active_chat_ids' = active_chat_ids \cup {a}
    /\ monitoring_active' = TRUE
    /\ last_record_count' = Len(table)
    /\ seen_record_ids' = IF LoopRunning THEN IdentifiersOf(table)
                          ELSE seen_record_ids
    /\ last_call' = Call(CASE active_chat_ids = {} -> "start_empty"
                           [] a \in active_chat_ids /\ monitoring_active
                                -> "start_dup"
                           [] OTHER -> "start", a)
    /\ UNCHANGED <<last_cycle, table, next_id, sync_cycle_counter, main_done,
                   pc, fresh_chat_ids, new_records, current_record_ids, rec_i,
                   it_set, it_done, it_raised, stable, sent, present_at_start,
                   alertVars, legacyVars>>
    /\ UNCHANGED <<caseVars, adding>>

\* ViolationMonitor.start_monitoring(chat_id), for chat_id # "system".
\* db is what parser.add_chat_id meets in the store, parse_ok whether the
\* temp_parser.parse() of line 404 works.
start_monitoring(a, db, parse_ok) ==
    /\ IF db = "conn_fail" /\ WellFormed(a)
       THEN \* parser.add_chat_id raises before anything is changed
            UNCHANGED <<chat_rows, active_chat_ids, monitoring_active,
                        last_record_count, last_call>>
       ELSE /\ chat_rows' = IF db = "ok" THEN AddChatRows(chat_rows, a)
                                          ELSE chat_rows
            /\ active_chat_ids' = active_chat_ids \cup {a}
            /\ IF ~monitoring_active /\ ~parse_ok
               THEN \* temp_parser.parse() raises after the local add
                    /\ last_call' = Call("start_raised", a)
                    /\ UNCHANGED <<monitoring_active, last_record_count>>
               ELSE /\ monitoring_active' = TRUE
                    /\ last_record_count' = IF monitoring_active
                                            THEN last_record_count
                                            ELSE Len(table)
                    /\ last_call' =
                         Call(CASE active_chat_ids = {} -> "start_empty"
                                [] a \in active_chat_ids /\ monitoring_active
                                     -> "start_dup"
                                [] OTHER -> "start", a)
    /\ UNCHANGED <<table, next_id, sync_cycle_counter, main_done, loopVars,
                   sent, present_at_start, alertVars, legacyVars>>
    /\ UNCHANGED <<caseVars, adding>>

\* What stop_monitoring(chat_id) returns when it returns: True from the
\* branch taken when the set is empty after the discard, False otherwise.
stop_monitoring_returns(a) == (active_chat_ids \ {a}) = {}

\* A stop_monitoring that stops the monitor on every call.
stop_monitoring_global(a, db) ==
    /\ db # "conn_fail"
    /\ chat_rows' = IF db = "ok" THEN RemoveChatRows(chat_rows, a)
                                 ELSE chat_rows
    /\ active_chat_ids' = active_chat_ids \ {a}
    /\ stable' = stable \ {a}
    /\ monitoring_active' = FALSE
    /\ last_call' = Call("stop", a)
    /\ UNCHANGED <<last_cycle, fresh_chat_ids, table, next_id,
                   last_record_count, sync_cycle_counter, main_done, pc,
                   seen_record_ids, new_records, current_record_ids, rec_i,
                   it_set, it_done, it_raised, sent, present_at_start,
                   alertVars, legacyVars>>
    /\ UNCHANGED <<caseVars, adding>>

\* ViolationMonitor.stop_monitoring(chat_id), for chat_id # "system".
stop_monitoring(a, db) ==
    /\ IF db = "conn_fail"
       THEN \* parser.remove_chat_id raises before anything is changed
            /\ last_call' = Call("stop_raised", a)
            /\ UNCHANGED <<chat_rows, active_chat_ids, monitoring_active,
                           stable>>
       ELSE /\ chat_rows' = IF db = "ok" THEN RemoveChatRows(chat_rows, a)
                                          ELSE chat_rows
            /\ active_chat_ids' = active_chat_ids \ {a}
            /\ stable' = stable \ {a}
            /\ monitoring_active' = IF active_chat_ids' = {} THEN FALSE
                                    ELSE monitoring_active
            /\ last_call' =
                 CASE a \in active_chat_ids /\ active_chat_ids' = {}
                        -> Call("stop_last", a)
                   [] a \notin active_chat_ids /\ last_call.op = "stop_last"
                        -> last_call
                   [] OTHER -> Call("stop", a)
    /\ UNCHANGED <<last_cycle, fresh_chat_ids, table, next_id,
                   last_record_count, sync_cycle_counter, main_done, pc,
                   seen_record_ids, new_records, current_record_ids, rec_i,
                   it_set, it_done, it_raised, sent, present_at_start,
                   alertVars, legacyVars>>
    /\ UNCHANGED <<caseVars, adding>>

\* DataParser.add_chat_id(chat_id) called on its own (dashboard, tests);
\* the history keeps what it returned.
DataParser_add_chat_id(a, db) ==
    /\ chat_rows' = IF db = "ok" THEN AddChatRows(chat_rows, a) ELSE chat_rows
    /\ last_call' = Call(CASE ~WellFormed(a) -> "store_add_false"
                           [] db = "conn_fail" -> "store_add_raised"
                           [] db = "ok" /\ AddChatRet(chat_rows, a)
                                -> "store_add_true"
                           [] OTHER -> "store_add_false", a)
    /\ UNCHANGED <<table, next_id, monVars, loopVars, sent, present_at_start,
                   alertVars, legacyVars>>
    /\ UNCHANGED <<caseVars, adding>>

\* DataParser.remove_chat_id(chat_id) called on its own (dashboard, tests);
\* the history keeps what it returned.
DataParser_remove_chat_id(a, db) ==
    /\ chat_rows' = IF db = "ok" THEN RemoveChatRows(chat_rows, a)
                                 ELSE chat_rows
    /\ last_call' = Call(CASE db = "conn_fail" -> "store_remove_raised"
                           [] db = "ok" /\ RemoveChatRet(chat_rows, a)
                                -> "store_remove_true"
                           [] OTHER -> "store_remove_false", a)
    /\ UNCHANGED <<table, next_id, monVars, loopVars, sent, present_at_start,
                   alertVars, legacyVars, caseVars, adding>>

\* An add_chat_id that takes the number into the set only when the store
\* has inserted it.
add_chat_id_strict(a, db) ==
    /\ IF ~WellFormed(a)
       THEN /\ last_call' = Call("add_false", a)
            /\ UNCHANGED <<chat_rows, active_chat_ids>>
       ELSE IF db = "conn_fail"
       THEN /\ last_call' = Call("add_raised", a)
            /\ UNCHANGED <<chat_rows, active_chat_ids>>
       ELSE /\ chat_rows' = IF db = "ok" THEN AddChatRows(chat_rows, a)
                                          ELSE chat_rows
            /\ active_chat_ids' =
                 IF db = "ok" /\ AddChatRet(chat_rows, a)
                 THEN active_chat_ids \cup {a} ELSE active_chat_ids
            /\ last_call' = Call(IF db = "ok" /\ AddChatRet(chat_rows, a)
                                 THEN "add_true" ELSE "add_false", a)
    /\ UNCHANGED <<table, next_id, monitoring_active, last_record_count,
                   sync_cycle_counter, main_done, loopVars, sent,
                   present_at_start, alertVars, legacyVars>>
    /\ UNCHANGED <<caseVars, adding>>

\* The module-level add_chat_id(chat_id) of src/main.py: the format test,
\* the store, then the set whether the store inserted the number or not.
add_chat_id(a, db) ==
    /\ IF ~WellFormed(a)
       THEN /\ last_call' = Call("add_false", a)
            /\ UNCHANGED <<chat_rows, active_chat_ids>>
       ELSE IF db = "conn_fail"
       THEN \* monitor.parser.add_chat_id raises
            /\ last_call' = Call("add_raised", a)
            /\ UNCHANGED <<chat_rows, active_chat_ids>>
       ELSE /\ chat_rows' = IF db = "ok" THEN AddChatRows(chat_rows, a)
                                          ELSE chat_rows
            /\ active_chat_ids' = active_chat_ids \cup {a}
            /\ last_call' = Call(IF db = "ok" /\ AddChatRet(chat_rows, a)
                                 THEN "add_true" ELSE "add_false", a)
    /\ UNCHANGED <<table, next_id, monitoring_active, last_record_count,
                   sync_cycle_counter, main_done, loopVars, sent,
                   present_at_start, alertVars, legacyVars>>
    /\ UNCHANGED <<caseVars, adding>>

\* main(): monitor.initialize, then the only place that starts the thread.
main ==
    /\ ~main_done
    /\ main_done' = TRUE
    /\ last_record_count' = Len(table)
    /\ IF ~monitoring_active
       THEN /\ monitoring_active' = TRUE
            /\ pc' = "snapshot"
            /\ present_at_start' = Range(table)
       ELSE UNCHANGED <<monitoring_active, pc, present_at_start>>
    /\ UNCHANGED <<last_cycle, fresh_chat_ids, storeVars, active_chat_ids,
                   sync_cycle_counter, seen_record_ids, new_records,
                   current_record_ids, rec_i, it_set, it_done, it_raised,
                   stable, sent, last_call, alertVars, legacyVars>>
    /\ UNCHANGED <<caseVars, adding>>

\* --------------------------------------- src/main.py: monitor_sql_db thread
\* Return to the top of the while loop with the cycle's locals dropped.
ToTop(how) ==
    /\ pc' = "top"
    /\ last_cycle' = how
    /\ new_records' = <<>>
    /\ current_record_ids' = {}
    /\ rec_i' = 0
    /\ it_set' = {}
    /\ it_done' = {}
    /\ it_raised' = {}
    /\ stable' = {}

\* Lines 299-317: the initial snapshot. A failed parse is logged and the
\* loop is entered with an empty seen set.
Snapshot(parse_ok) ==
    /\ pc = "snapshot"
    /\ seen_record_ids' = IF parse_ok THEN IdentifiersOf(table) ELSE {}
    /\ last_record_count' = IF parse_ok THEN Len(table) ELSE last_record_count
    /\ pc' = "top"
    /\ UNCHANGED <<last_cycle, fresh_chat_ids, storeVars, monitoring_active,
                   active_chat_ids, sync_cycle_counter, main_done,
                   new_records, current_record_ids, rec_i, it_set, it_done,
                   it_raised, stable, histVars, alertVars, legacyVars>>
    /\ UNCHANGED <<caseVars, adding>>

\* A loop that resyncs one iteration late.
LoopTop_late ==
    /\ pc = "top"
    /\ last_cycle' = "none"
    /\ IF monitoring_active
       THEN /\ sync_cycle_counter' = sync_cycle_counter + 1
            /\ pc' = IF sync_cycle_counter + 1 > SyncEvery THEN  "sync"
                                                           ELSE "fetch"
       ELSE /\ pc' = "done"
            /\ UNCHANGED sync_cycle_counter
    /\ UNCHANGED <<fresh_chat_ids, storeVars, monitoring_active,
                   active_chat_ids, last_record_count, main_done,
                   seen_record_ids, new_records, current_record_ids, rec_i,
                   it_set, it_done, it_raised, stable, histVars, alertVars,
                   legacyVars>>
    /\ UNCHANGED <<caseVars, adding>>

\* A loop that goes on as long as there are chats, whatever the flag says.
LoopTop_chats ==
    /\ pc = "top"
    /\ last_cycle' = "none"
    /\ IF active_chat_ids # {}
       THEN /\ sync_cycle_counter' = sync_cycle_counter + 1
            /\ pc' = IF sync_cycle_counter + 1 >= SyncEvery THEN "sync"
                                                           ELSE "fetch"
       ELSE /\ pc' = "done"
            /\ UNCHANGED sync_cycle_counter
    /\ UNCHANGED <<fresh_chat_ids, storeVars, monitoring_active,
                   active_chat_ids, last_record_count, main_done,
                   seen_record_ids, new_records, current_record_ids, rec_i,
                   it_set, it_done, it_raised, stable, histVars, alertVars,
                   legacyVars>>
    /\ UNCHANGED <<caseVars, adding>>

\* Lines 319-325: the while test (after the sleep of the cycle before) and
\* the count of the cycle.
LoopTop ==
    /\ pc = "top"
    /\ last_cycle' = "none"
    /\ IF monitoring_active
       THEN /\ sync_cycle_counter' = sync_cycle_counter + 1
            /\ pc' = IF sync_cycle_counter + 1 >= SyncEvery THEN "sync"
                                                           ELSE "fetch"
       ELSE /\ pc' = "done"
            /\ UNCHANGED sync_cycle_counter
    /\ UNCHANGED <<fresh_chat_ids, storeVars, monitoring_active,
                   active_chat_ids, last_record_count, main_done,
                   seen_record_ids, new_records, current_record_ids, rec_i,
                   it_set, it_done, it_raised, stable, histVars, alertVars,
                   legacyVars>>
    /\ UNCHANGED <<caseVars, adding>>

\* ViolationMonitor.sync_chat_ids, then line 325. A failed connection leaves
\* the set alone; a failed query makes get_active_chat_ids return [].
SyncedChats(rows, cur, db) ==
    CASE db = "ok" -> ActiveChats(rows)
      [] db = "conn_fail" -> cur
      [] OTHER -> {}

\* A resync without its try: the exception of the query ends the thread.
SyncRead_fatal(db) ==
    /\ pc = "sync"
    /\ IF db = "conn_fail"
       THEN /\ sync_cycle_counter' = sync_cycle_counter
            /\ pc' = "done"
            /\ UNCHANGED fresh_chat_ids
       ELSE /\ fresh_chat_ids' = SyncedChats(chat_rows, active_chat_ids, db)
            /\ pc' = "swap"
            /\ UNCHANGED sync_cycle_counter
    /\ UNCHANGED <<last_cycle, storeVars, monitoring_active, active_chat_ids,
                   last_record_count, main_done, seen_record_ids, new_records,
                   current_record_ids, rec_i, it_set, it_done, it_raised,
                   stable, histVars, alertVars, legacyVars>>
    /\ UNCHANGED <<caseVars, adding>>

\* sync_chat_ids, first half (line 207): the query. An exception leaves the
\* method through its except; line 325 then resets the counter.
SyncRead(db) ==
    /\ pc = "sync"
    /\ IF db = "conn_fail"
       THEN /\ sync_cycle_counter' = 0
            /\ pc' = "fetch"
            /\ UNCHANGED fresh_chat_ids
       ELSE /\ fresh_chat_ids' = SyncedChats(chat_rows, active_chat_ids, db)
            /\ pc' = "swap"
            /\ UNCHANGED sync_cycle_counter
    /\ UNCHANGED <<last_cycle, storeVars, monitoring_active, active_chat_ids,
                   last_record_count, main_done, seen_record_ids, new_records,
                   current_record_ids, rec_i, it_set, it_done, it_raised,
                   stable, histVars, alertVars, legacyVars>>
    /\ UNCHANGED <<caseVars, adding>>

\* A resync that makes the store follow the in-memory set.
sync_chat_ids_writeback ==
    /\ pc = "swap"
    /\ chat_rows' = [a \in Addr |-> IF a \in active_chat_ids THEN "active"
                                    ELSE IF chat_rows[a] = "none" THEN "none"
                                    ELSE "inactive"]
    /\ fresh_chat_ids' = {}
    /\ sync_cycle_counter' = 0
    /\ pc' = "fetch"
    /\ UNCHANGED <<last_cycle, table, next_id, monitoring_active, active_chat_ids,
                   last_record_count, main_done,
                   seen_record_ids, new_records,
                   current_record_ids, rec_i, it_set, it_done, it_raised,
                   stable, histVars, alertVars, legacyVars>>
    /\ UNCHANGED <<caseVars, adding>>

\* sync_chat_ids, second half (lines 208-210): the set is replaced by the
\* query's result when they differ; then line 325.
sync_chat_ids ==
    /\ pc = "swap"
    /\ active_chat_ids' = fresh_chat_ids
    /\ fresh_chat_ids' = {}
    /\ sync_cycle_counter' = 0
    /\ pc' = "fetch"
    /\ UNCHANGED <<last_cycle, storeVars, monitoring_active,
                   last_record_count, main_done, seen_record_ids, new_records,
                   current_record_ids, rec_i, it_set, it_done, it_raised,
                   stable, histVars, alertVars, legacyVars>>
    /\ UNCHANGED <<caseVars, adding>>

\* An end of cycle that starts the seen set afresh.
FinishCycle_forget(seen, current) ==
    /\ seen_record_ids' = {}
    /\ last_record_count' = Cardinality(current)
    /\ ToTop("completed")

\* An end of cycle that never forgets an identifier.
FinishCycle_keep(seen, current) ==
    /\ seen_record_ids' = seen
    /\ last_record_count' = Cardinality(current)
    /\ ToTop("completed")

\* Lines 361-371: the end of a cycle whose fetch worked.
FinishCycle(seen, current) ==
    /\ seen_record_ids' = seen \cap current
    /\ last_record_count' = Cardinality(current)
    /\ ToTop("completed")

\* A fetch whose failure is taken for an empty table.
Fetch_empty(parse_ok) ==
    /\ pc = "fetch"
    /\ IF ~parse_ok
       THEN FinishCycle(seen_record_ids, {})
       ELSE LET batch == NewRecords(table, seen_record_ids, 1)
                seen == seen_record_ids \cup IdentifiersOf(table)
            IN  IF batch = <<>>
                THEN FinishCycle(seen, IdentifiersOf(table))
                ELSE /\ seen_record_ids' = seen
                     /\ new_records' = batch
                     /\ current_record_ids' = IdentifiersOf(table)
                     /\ rec_i' = 1
                     /\ it_set' = active_chat_ids
                     /\ it_done' = {}
                     /\ it_raised' = {}
                     /\ stable' = active_chat_ids
                     /\ pc' = "dispatch"
                     /\ UNCHANGED <<last_record_count, last_cycle>>
    /\ UNCHANGED <<fresh_chat_ids, storeVars, monitoring_active,
                   active_chat_ids, sync_cycle_counter, main_done, histVars,
                   alertVars, legacyVars>>
    /\ UNCHANGED <<caseVars, adding>>

\* Lines 327-349: the fetch and the scan for new records. A failed fetch is
\* caught by the outer except (lines 373-375).
Fetch(parse_ok) ==
    /\ pc = "fetch"
    /\ IF ~parse_ok
       THEN /\ ToTop("fetch_failed")
            /\ UNCHANGED <<seen_record_ids, last_record_count>>
       ELSE LET batch == NewRecords(table, seen_record_ids, 1)
                seen == seen_record_ids \cup IdentifiersOf(table)
            IN  IF batch = <<>>
                THEN FinishCycle(seen, IdentifiersOf(table))
                ELSE /\ seen_record_ids' = seen
                     /\ new_records' = batch
                     /\ current_record_ids' = IdentifiersOf(table)
                     /\ rec_i' = 1
                     /\ it_set' = active_chat_ids
                     /\ it_done' = {}
                     /\ it_raised' = {}
                     /\ stable' = active_chat_ids
                     /\ pc' = "dispatch"
                     /\ UNCHANGED <<last_record_count, last_cycle>>
    /\ UNCHANGED <<fresh_chat_ids, storeVars, monitoring_active,
                   active_chat_ids, sync_cycle_counter, main_done, histVars,
                   alertVars, legacyVars>>
    /\ UNCHANGED <<caseVars, adding>>

\* What the set iterator of line 354 can do next. The size test comes first
\* (RuntimeError: Set changed size during iteration). A set of the same size
\* but other members was changed in place under the iterator: the scan goes on
\* over the table as it now is and may or may not come across the members not
\* yet yielded.
IterChanged == Cardinality(active_chat_ids) # Cardinality(it_set)

IterYield ==
    IF IterChanged THEN {} ELSE active_chat_ids \ it_done

IterMayStop ==
    /\ ~IterChanged
    /\ \/ active_chat_ids \ it_done = {}
       \/ active_chat_ids # it_set /\ it_done # {}

\* What send_new_violation_alert does to its caller: it returns (delivered or
\* not) or an exception of a send leaves it (see SpecAlert).
AlertResult == {"returned", "raised"}

\* A dispatch without the try of line 355: a raise of the alert call reaches
\* the outer except and the rest of the cycle is dropped.
DispatchSend_unguarded(a, res) ==
    /\ pc = "dispatch"
    /\ a \in IterYield
    /\ sent[<<new_records[rec_i], a>>] < MaxAlerts
    /\ sent' = [sent EXCEPT ![<<new_records[rec_i], a>>] = @ + 1]
    /\ IF res = "raised"
       THEN ToTop("aborted")
       ELSE /\ it_done' = it_done \cup {a}
            /\ UNCHANGED <<pc, last_cycle, new_records, current_record_ids,
                           rec_i, it_set, it_raised, stable>>
    /\ UNCHANGED <<fresh_chat_ids, storeVars, monVars, seen_record_ids,
                   present_at_start, last_call, alertVars, legacyVars>>
    /\ UNCHANGED <<caseVars, adding>>

\* Lines 354-359: one turn of the inner for: the next chat and the alert call
\* for it. A raise is caught at line 358 and the for goes on.
DispatchSend(a, res) ==
    /\ pc = "dispatch"
    /\ a \in IterYield
    /\ sent[<<new_records[rec_i], a>>] < MaxAlerts
    /\ sent' = [sent EXCEPT ![<<new_records[rec_i], a>>] = @ + 1]
    /\ it_done' = it_done \cup {a}
    /\ it_raised' = IF res = "raised" THEN it_raised \cup {a} ELSE it_raised
    /\ UNCHANGED <<last_cycle, fresh_chat_ids, storeVars, monVars, pc,
                   seen_record_ids, new_records, current_record_ids, rec_i,
                   it_set, stable, present_at_start, last_call, alertVars,
                   legacyVars>>
    /\ UNCHANGED <<caseVars, adding>>

\* The inner for is exhausted: the next record of the batch, or the end of
\* the cycle.
DispatchNext ==
    /\ pc = "dispatch"
    /\ IterMayStop
    /\ IF rec_i < Len(new_records)
       THEN /\ rec_i' = rec_i + 1
            /\ it_set' = active_chat_ids
            /\ it_done' = {}
            /\ it_raised' = {}
            /\ UNCHANGED <<pc, last_cycle, seen_record_ids, new_records,
                           current_record_ids, last_record_count, stable>>
       ELSE FinishCycle(seen_record_ids, current_record_ids)
    /\ UNCHANGED <<fresh_chat_ids, storeVars, monitoring_active,
                   active_chat_ids, sync_cycle_counter, main_done, histVars,
                   alertVars, legacyVars>>
    /\ UNCHANGED <<caseVars, adding>>

\* The set changed size under the iterator: the RuntimeError is raised by the
\* for statement itself, outside the try of line 355, and is caught by the
\* outer except: the rest of the batch is dropped, lines 361-371 are skipped.
DispatchAbort ==
    /\ pc = "dispatch"
    /\ IterChanged
    /\ ToTop("aborted")
    /\ UNCHANGED <<fresh_chat_ids, storeVars, monVars, seen_record_ids,
                   histVars, alertVars, legacyVars>>
    /\ UNCHANGED <<caseVars, adding>>

\* Any step of the polling thread, from the snapshot to the end of a cycle,
\* with any answer of the store and of the sends.
PollCycleStep ==
    \/ \E ok \in BOOLEAN : Snapshot(ok)
    \/ LoopTop
    \/ \E db \in DbOutcome : SyncRead(db)
    \/ sync_chat_ids
    \/ \E ok \in BOOLEAN : Fetch(ok)
    \/ \E a \in Addr, res \in AlertResult : DispatchSend(a, res)
    \/ DispatchNext
    \/ DispatchAbort

\* ------------------------------------------------------- the environment
\* A new violation row (camera pipeline, operator, demo generator).
Insert ==
    /\ next_id < MaxId
    /\ next_id' = next_id + 1
    /\ table' = Append(table, next_id + 1)
    /\ reply' = [reply EXCEPT ![next_id + 1] = ReplyOf(FALSE)]
    /\ UNCHANGED <<chat_rows, monVars, loopVars, histVars, alertVars,
                   legacyVars, upd, shown, demo, adding>>

\* The dashboard deletes a row.
Delete(r) ==
    /\ r \in Range(table)
    /\ table' = RemoveRow(table, r)
    /\ UNCHANGED <<next_id, chat_rows, monVars, loopVars, histVars, alertVars,
                   legacyVars>>
    /\ UNCHANGED <<caseVars, adding>>

\* The dashboard adds or removes a number (DataParser.add_chat_id /
\* remove_chat_id straight on the store, src/streamlit_app.py 267, 330).
DashAdd(a) ==
    /\ chat_rows[a] = "none"
    /\ chat_rows' = AddChatRows(chat_rows, a)
    /\ UNCHANGED <<table, next_id, monVars, loopVars, histVars, alertVars,
                   legacyVars>>
    /\ UNCHANGED <<caseVars, adding>>

DashRemove(a) ==
    /\ chat_rows[a] = "active"
    /\ chat_rows' = RemoveChatRows(chat_rows, a)
    /\ UNCHANGED <<table, next_id, monVars, loopVars, histVars, alertVars,
                   legacyVars>>
    /\ UNCHANGED <<caseVars, adding>>

\* ------------------------------------------------------------------ Spec
\* ViolationMonitor.__init__ / _load_chat_ids_from_snowflake: the set is the
\* store's active list, the fallback default on an exception, or empty when
\* the query failed inside get_active_chat_ids.
LoadedChats(rows, db) ==
    CASE db = "ok" -> ActiveChats(rows)
      [] db = "conn_fail" -> {DefaultChat}
      [] OTHER -> {}

InitAlertIdle ==
    /\ alert_pc = "idle" /\ alert_img = FALSE /\ alert_log = <<>>

InitLegacyIdle ==
    /\ threads = [t \in 1..MaxThreads |-> "none"]

\* The processes that call DataParser.add_chat_id, each on a connection of
\* its own, and no call of theirs in progress.
Adder == {"monitor", "dashboard"}
NotAdding == "-"
InitAddIdle ==
    /\ adding = [c \in Adder |-> NotAdding]

\* No demo_command has been run.
DemoIdle == [pc |-> "idle", chat |-> "", id |-> 0]

\* No update_resolved_status call has been made.
UpdIdle == [pc |-> "idle", id |-> 0, resolved |-> FALSE, ret |-> "none"]

\* The rows there are were inserted unresolved.
InitCasesIdle ==
    /\ reply = [r \in RecId |-> IF r <= next_id THEN ReplyOf(FALSE) ELSE Null]
    /\ upd = UpdIdle
    /\ shown = {}
    /\ demo = DemoIdle

InitLoop ==
    /\ pc = "none"
    /\ fresh_chat_ids = {}
    /\ last_cycle = "none"
    /\ seen_record_ids = {}
    /\ new_records = <<>>
    /\ current_record_ids = {}
    /\ rec_i = 0
    /\ it_set = {}
    /\ it_done = {}
    /\ it_raised = {}
    /\ stable = {}

InitHist ==
    /\ sent = [p \in RecId \X Addr |-> 0]
    /\ present_at_start = {}
    /\ last_call = Call("none", "")

\* The process after import: the store as earlier runs left it (numbers
\* subscribed, never subscribed or soft-deleted), the monitor constructed.
Init ==
    /\ \E n \in 0..1 : /\ next_id = n
                       /\ table = [i \in 1..n |-> i]
    /\ chat_rows \in [Addr -> {"none", "active", "inactive"}]
    /\ active_chat_ids = LoadedChats(chat_rows, "ok")
    /\ monitoring_active = FALSE
    /\ last_record_count = 0
    /\ sync_cycle_counter = 0
    /\ main_done = FALSE
    /\ InitLoop
    /\ InitHist
    /\ InitAlertIdle
    /\ InitLegacyIdle
    /\ InitCasesIdle
    /\ InitAddIdle

Next ==
    \/ \E a \in Addr : start_monitoring(a, "ok", TRUE)
    \/ \E a \in Addr : stop_monitoring(a, "ok")
    \/ main
    \/ \E ok \in BOOLEAN : Snapshot(ok)
    \/ LoopTop
    \/ SyncRead("ok")
    \/ sync_chat_ids
    \/ \E ok \in BOOLEAN : Fetch(ok)
    \/ \E a \in Addr, res \in AlertResult : DispatchSend(a, res)
    \/ DispatchNext
    \/ DispatchAbort
    \/ Insert

Spec == Init /\ [][Next]_vars

\* The same with the dashboard adding and removing numbers in the store.
NextDash ==
    \/ Next
    \/ \E a \in Addr : DashAdd(a)
    \/ \E a \in Addr : DashRemove(a)

SpecDash == Init /\ [][NextDash]_vars

\* The monitor with a store that fails and changes under it: the resync's
\* query may fail either way, the dashboard adds and removes numbers; chats
\* only leave through stop_monitoring.
NextFault ==
    \/ \E a \in Addr : stop_monitoring(a, "ok")
    \/ main
    \/ \E ok \in BOOLEAN : Snapshot(ok)
    \/ LoopTop
    \/ \E db \in DbOutcome : SyncRead(db)
    \/ sync_chat_ids
    \/ \E ok \in BOOLEAN : Fetch(ok)
    \/ \E a \in Addr, res \in AlertResult : DispatchSend(a, res)
    \/ DispatchNext
    \/ DispatchAbort
    \/ Insert
    \/ \E a \in Addr : DashAdd(a)
    \/ \E a \in Addr : DashRemove(a)

SpecFault == Init /\ [][NextFault]_vars

\* The polling thread alone over a store the dashboard changes under it:
\* rows come and go (delete_violation), numbers are added and removed;
\* nobody calls start_monitoring or stop_monitoring.
NextPurge ==
    \/ main
    \/ \E ok \in BOOLEAN : Snapshot(ok)
    \/ LoopTop
    \/ SyncRead("ok")
    \/ sync_chat_ids
    \/ \E ok \in BOOLEAN : Fetch(ok)
    \/ \E a \in Addr, res \in AlertResult : DispatchSend(a, res)
    \/ DispatchNext
    \/ Insert
    \/ \E r \in RecId : Delete(r)
    \/ \E a \in Addr : DashAdd(a)
    \/ \E a \in Addr : DashRemove(a)

SpecPurge == Init /\ [][NextPurge]_vars

\* The entry points of the registry, called with any string over a store
\* that may fail; no polling thread.
NextRegistry ==
    \/ \E a \in AnyAddr, db \in DbOutcome : add_chat_id(a, db)
    \/ \E a \in AnyAddr, db \in DbOutcome : DataParser_add_chat_id(a, db)
    \/ \E a \in AnyAddr, db \in DbOutcome, ok \in BOOLEAN :
           start_monitoring(a, db, ok)
    \/ \E a \in AnyAddr, db \in DbOutcome : stop_monitoring(a, db)

SpecRegistry == Init /\ [][NextRegistry]_vars

\* -------------------------------------------------------------- SpecLive
\* The steps of the polling thread over a store that answers.
ThreadStep ==
    \/ Snapshot(TRUE)
    \/ LoopTop
    \/ SyncRead("ok")
    \/ sync_chat_ids
    \/ Fetch(TRUE)
    \/ \E a \in Addr, res \in AlertResult : DispatchSend(a, res)
    \/ DispatchNext
    \/ DispatchAbort

\* The monitor over a store that answers, with rows inserted and chats
\* leaving; the thread, a daemon thread of its own, is never kept from
\* taking its next step.
NextLive ==
    \/ main
    \/ ThreadStep
    \/ Insert
    \/ \E a \in Addr : stop_monitoring(a, "ok")

SpecLive == Init /\ [][NextLive]_vars /\ WF_vars(ThreadStep)

\* ------------------------------------------------------------- SpecStore
\* The subscriber table under DataParser's own operations, one call at a
\* time, with any string and a store that may fail.
NextStore ==
    \/ \E a \in AnyAddr, db \in DbOutcome : DataParser_add_chat_id(a, db)
    \/ \E a \in AnyAddr, db \in DbOutcome : DataParser_remove_chat_id(a, db)

SpecStore == Init /\ [][NextStore]_vars

\* ------------------------------------------------------------ SpecAdders
\* DataParser.add_chat_id by caller c, up to the answer of SELECT COUNT(*):
\* the format test, the connection, the query. The history keeps what the
\* call returned when it ends here.
add_chat_id_count(c, a, db) ==
    /\ adding[c] = NotAdding
    /\ IF WellFormed(a) /\ db = "ok" /\ chat_rows[a] = "none"
       THEN /\ adding' = [adding EXCEPT ![c] = a]
            /\ UNCHANGED last_call
       ELSE /\ last_call' = Call(IF WellFormed(a) /\ db = "conn_fail"
                                 THEN "store_add_raised"
                                 ELSE "store_add_false", a)
            /\ UNCHANGED adding
    /\ UNCHANGED <<storeVars, monVars, loopVars, sent, present_at_start,
                   alertVars, legacyVars, caseVars>>

\* The rest of the call: INSERT and commit. The table is declared with
\* CHAT_ID as PRIMARY KEY (src/data.py:424); whether the store refuses a
\* second row of the same key (enforced) or takes it is the store's choice.
\* A refused or failed INSERT is caught and gives False.
add_chat_id_insert(c, db, enforced) ==
    /\ adding[c] # NotAdding
    /\ adding' = [adding EXCEPT ![c] = NotAdding]
    /\ LET a == adding[c]
       IN IF db = "ok" /\ (chat_rows[a] = "none" \/ ~enforced)
          THEN /\ chat_rows' = [chat_rows EXCEPT
                                  ![a] = IF @ = "none" THEN "active"
                                         ELSE "twice"]
               /\ last_call' = Call("store_add_true", a)
          ELSE /\ last_call' = Call("store_add_false", a)
               /\ UNCHANGED chat_rows
    /\ UNCHANGED <<table, next_id, monVars, loopVars, sent, present_at_start,
                   alertVars, legacyVars, caseVars>>

\* The monitor and the dashboard adding numbers at the same time.
NextAdders ==
    \/ \E c \in Adder, a \in AnyAddr, db \in DbOutcome :
           add_chat_id_count(c, a, db)
    \/ \E c \in Adder, db \in {"ok", "query_fail"}, enforced \in BOOLEAN :
           add_chat_id_insert(c, db, enforced)

SpecAdders == Init /\ [][NextAdders]_vars

\* ------------------------------------------------------------- SpecCases
\* The ids of S, highest first.
RECURSIVE SortDesc(_)
SortDesc(S) ==
    IF S = {} THEN <<>>
    ELSE LET m == CHOOSE x \in S : \A y \in S : y <= x
         IN <<m>> \o SortDesc(S \ {m})

\* DataParser.get_unresolved_records on a working store: the ids of the
\* rows the WHERE keeps, newest first (ids grow with the time of insertion).
get_unresolved_records ==
    SortDesc({r \in Range(table) : SqlUnresolved(reply[r])})

\* update_resolved_status(row_index, resolved), first half: records =
\* self.parse() and the choice of the row. parse has no except, so a failure
\* of the connection or of the query leaves the call with an exception.
update_resolved_status_fetch(row_index, resolved, parse_ok) ==
    /\ upd.pc = "idle"
    /\ upd' = IF ~parse_ok
              THEN [pc |-> "idle", id |-> 0, resolved |-> resolved,
                    ret |-> "raised"]
              ELSE IF ~(1 <= row_index /\ row_index <= Len(table))
              THEN [pc |-> "idle", id |-> 0, resolved |-> resolved,
                    ret |-> "false"]
              ELSE [pc |-> "write", id |-> table[row_index],
                    resolved |-> resolved, ret |-> "none"]
    /\ UNCHANGED <<storeVars, monVars, loopVars, histVars, alertVars,
                   legacyVars, reply, shown, demo, adding>>

\* update_resolved_status, second half: the connection (outside the try),
\* then UPDATE ... SET REPLY = str(resolved).lower() WHERE ID = case_id and
\* return rc > 0; an exception of the UPDATE is caught and gives False.
update_resolved_status_write(db) ==
    /\ upd.pc = "write"
    /\ reply' = IF db = "ok" /\ upd.id \in Range(table)
                THEN [reply EXCEPT ![upd.id] = ReplyOf(upd.resolved)]
                ELSE reply
    /\ upd' = [upd EXCEPT !.pc = "idle",
                          !.ret = CASE db = "conn_fail" -> "raised"
                                    [] db = "query_fail" -> "false"
                                    [] OTHER -> IF upd.id \in Range(table)
                                                THEN "true" ELSE "false"]
    /\ UNCHANGED <<storeVars, monVars, loopVars, histVars, alertVars,
                   legacyVars, shown, demo, adding>>

\* The dashboard's update_violation on a row: REPLY = str(resolved).lower().
update_violation(r, resolved) ==
    /\ r \in Range(table)
    /\ reply' = [reply EXCEPT ![r] = ReplyOf(resolved)]
    /\ UNCHANGED <<storeVars, monVars, loopVars, histVars, alertVars,
                   legacyVars, upd, shown, demo, adding>>

\* A store that earlier runs and imports have filled: up to MaxId rows with
\* any REPLY.
InitCases ==
    /\ \E n \in 0..MaxId : /\ next_id = n
                           /\ table = [i \in 1..n |-> i]
    /\ reply \in [RecId -> ReplyVal]
    /\ \A r \in RecId : r > next_id => reply[r] = Null
    /\ upd = UpdIdle
    /\ shown = {}
    /\ demo = DemoIdle
    /\ chat_rows \in [Addr -> {"none", "active", "inactive"}]
    /\ active_chat_ids = LoadedChats(chat_rows, "ok")
    /\ monitoring_active = FALSE
    /\ last_record_count = 0
    /\ sync_cycle_counter = 0
    /\ main_done = FALSE
    /\ InitLoop
    /\ InitHist
    /\ InitAlertIdle
    /\ InitLegacyIdle
    /\ InitAddIdle

\* The case operations of the bot and the dashboard on the violation table.
NextCases ==
    \/ \E i \in 0..(MaxId + 1), resolved \in BOOLEAN, ok \in BOOLEAN :
           update_resolved_status_fetch(i, resolved, ok)
    \/ \E db \in DbOutcome : update_resolved_status_write(db)
    \/ \E r \in RecId, resolved \in BOOLEAN : update_violation(r, resolved)
    \/ Insert
    \/ \E r \in RecId : Delete(r)
    \/ main

SpecCases == InitCases /\ [][NextCases]_vars

\* ------------------------------------------------------------- SpecIndex
\* CREATION_TZ of a row: fixed when the row is written; the rows alternate
\* between two sites.
Tz == {"Asia/Singapore", "Asia/Jakarta"}
creation_tz(r) == IF r % 2 = 1 THEN "Asia/Singapore" ELSE "Asia/Jakarta"

\* DataParser.get_records_by_timezone(tz): the rows of the site, newest
\* first, numbered from 1 in that order.
get_records_by_timezone(tz) ==
    SortDesc({r \in Range(table) : creation_tz(r) = tz})

\* The pairs <<row_index, id>> of the records of a fetched list that are in
\* keep, row_index being the place in the list (enumerate(rows, start=1)).
Indexed(records, keep) ==
    {<<i, records[i]>> : i \in {k \in 1..Len(records) : records[k] \in keep}}

\* start_command shows the first three of get_unresolved_records() with
\* "Case ID: {row_index}" and "Reply with: 'resolve {row_index}'".
FirstThree(records) ==
    SubSeq(records, 1, IF Len(records) < 3 THEN Len(records) ELSE 3)
send_violation_message ==
    /\ shown' = Indexed(FirstThree(get_unresolved_records), RecId)
    /\ UNCHANGED <<storeVars, monVars, loopVars, histVars, alertVars,
                   legacyVars, reply, upd, demo, adding>>

\* The dashboard's case list: load_data(filter) is parse() or
\* get_records_by_timezone(filter); the rows with resolved == False are
\* shown as "Case #{row_index}" with their two buttons.
Unresolved(r) == ~Resolved(reply[r])
load_data(filter) ==
    IF filter = "All Timezones" THEN table ELSE get_records_by_timezone(filter)
show_cases(filter) ==
    /\ shown' = Indexed(load_data(filter), {r \in RecId : Unresolved(r)})
    /\ UNCHANGED <<storeVars, monVars, loopVars, histVars, alertVars,
                   legacyVars, reply, upd, demo, adding>>

\* ViolationManager.delete_violation(row_index): parse(), the row at
\* row_index in that list, DELETE by its ID; every exception is caught and
\* gives False.
delete_violation(row_index, parse_ok) ==
    /\ table' = IF parse_ok /\ 1 <= row_index /\ row_index <= Len(table)
                THEN RemoveRow(table, table[row_index])
                ELSE table
    /\ UNCHANGED <<next_id, chat_rows, monVars, loopVars, histVars, alertVars,
                   legacyVars, caseVars, adding>>

\* Some rows, all unresolved or some resolved, and nothing displayed yet.
InitIndex ==
    /\ \E n \in 0..MaxId : /\ next_id = n
                           /\ table = [i \in 1..n |-> i]
    /\ reply \in [RecId -> {Null, ReplyOf(FALSE), ReplyOf(TRUE)}]
    /\ \A r \in RecId : r > next_id => reply[r] = Null
    /\ upd = UpdIdle
    /\ shown = {}
    /\ demo = DemoIdle
    /\ chat_rows = [a \in Addr |-> "none"]
    /\ active_chat_ids = LoadedChats(chat_rows, "ok")
    /\ monitoring_active = FALSE
    /\ last_record_count = 0
    /\ sync_cycle_counter = 0
    /\ main_done = FALSE
    /\ InitLoop
    /\ InitHist
    /\ InitAlertIdle
    /\ InitLegacyIdle
    /\ InitAddIdle

\* A user looks at a list and presses a button of a case it shows, or
\* answers 'resolve N' with a number it shows, while rows come and go.
NextIndex ==
    \/ send_violation_message
    \/ \E filter \in Tz \cup {"All Timezones"} : show_cases(filter)
    \/ \E p \in shown : update_resolved_status_fetch(p[1], TRUE, TRUE)
    \/ update_resolved_status_write("ok")
    \/ \E p \in shown, ok \in BOOLEAN : delete_violation(p[1], ok)
    \/ Insert
    \/ \E r \in RecId : Delete(r)

SpecIndex == InitIndex /\ [][NextIndex]_vars

\* ------------------------- src/main.py: send_new_violation_alert, by send
\* What wa_send can do: a 2xx answer (ok is True), another answer (ok is
\* False, logged) or an exception of requests.post, which nothing between
\* wa_send and monitor_sql_db catches.
SendOutcome == {"ok", "fail", "raise"}

\* The call for record r and chat a is made (line 357).
AlertCall(r, a, img) ==
    /\ alert_pc \in {"idle", "returned", "raised"}
    /\ sent[<<r, a>>] < MaxAlerts
    /\ sent' = [sent EXCEPT ![<<r, a>>] = @ + 1]
    /\ alert_pc' = "template"
    /\ alert_img' = img
    /\ alert_log' = <<>>
    /\ UNCHANGED <<storeVars, monVars, loopVars, present_at_start, last_call,
                   legacyVars>>
    /\ UNCHANGED <<caseVars, adding>>

\* Where the call goes after the send of a tier came back with ok False.
AfterFail(tier, img) ==
    CASE tier = "template" -> IF img THEN "image" ELSE "text"
      [] tier = "image" -> "text"
      [] OTHER -> "returned"

\* A call that goes down the tiers whatever a send answered.
AlertSend_nostop(out) ==
    /\ alert_pc \in {"template", "image", "text"}
    /\ alert_log' = Append(alert_log, <<alert_pc, out>>)
    /\ alert_pc' = IF out = "raise" THEN "raised"
                   ELSE AfterFail(alert_pc, alert_img)
    /\ UNCHANGED <<storeVars, monVars, loopVars, histVars, alert_img,
                   legacyVars>>
    /\ UNCHANGED <<caseVars, adding>>

\* Lines 225-236, 250-252 and 253: the send of the tier the call is at.
AlertSend(out) ==
    /\ alert_pc \in {"template", "image", "text"}
    /\ alert_log' = Append(alert_log, <<alert_pc, out>>)
    /\ alert_pc' = CASE out = "ok" -> "returned"
                     [] out = "raise" -> "raised"
                     [] OTHER -> AfterFail(alert_pc, alert_img)
    /\ UNCHANGED <<storeVars, monVars, loopVars, histVars, alert_img,
                   legacyVars>>
    /\ UNCHANGED <<caseVars, adding>>

NextAlert ==
    \/ \E r \in RecId, a \in Addr, img \in BOOLEAN : AlertCall(r, a, img)
    \/ \E out \in SendOutcome : AlertSend(out)

SpecAlert == Init /\ [][NextAlert]_vars

\* ------------------------------ src/cctv/main.py: the count-based monitor
\* Threads that exist and have not returned from monitor_csv_file.
LiveThreads == {t \in 1..MaxThreads : threads[t] \in {"test", "body"}}

FreeThreads == {t \in 1..MaxThreads : threads[t] = "none"}

\* The rows monitor_csv_file takes for new: current_records[last_record_count:].
LegacyNew(s, n) == IF Len(s) > n THEN SubSeq(s, n + 1, Len(s)) ELSE <<>>

\* One more call of send_new_violation_alert for each of the pairs.
CountSends(cnt, pairs) ==
    [p \in DOMAIN cnt |-> IF p \in pairs /\ cnt[p] < MaxAlerts
                          THEN cnt[p] + 1 ELSE cnt[p]]

\* ViolationMonitor.initialize (called once by main()).
LegacyInitialize ==
    /\ ~main_done
    /\ main_done' = TRUE
    /\ last_record_count' = Len(table)
    /\ UNCHANGED <<storeVars, monitoring_active, active_chat_ids,
                   sync_cycle_counter, loopVars, histVars, alertVars,
                   legacyVars>>
    /\ UNCHANGED <<caseVars, adding>>

\* ViolationMonitor.start_monitoring: when the flag is down, a new thread is
\* created and started, whatever became of the one started before.
LegacyStart(a) ==
    /\ active_chat_ids' = active_chat_ids \cup {a}
    /\ IF ~monitoring_active
       THEN /\ FreeThreads # {}
            /\ last_record_count' = Len(table)
            /\ monitoring_active' = TRUE
            /\ threads' = [threads EXCEPT
                             ![CHOOSE t \in FreeThreads :
                                 \A u \in FreeThreads : t <= u] = "test"]
       ELSE UNCHANGED <<last_record_count, monitoring_active, threads>>
    /\ UNCHANGED <<storeVars, sync_cycle_counter, main_done, loopVars,
                   histVars, alertVars>>
    /\ UNCHANGED <<caseVars, adding>>

\* ViolationMonitor.stop_monitoring: the flag goes down with the last chat;
\* the thread is not joined, only the handle is dropped.
LegacyStop(a) ==
    /\ active_chat_ids' = active_chat_ids \ {a}
    /\ monitoring_active' = IF active_chat_ids' = {} THEN FALSE
                            ELSE monitoring_active
    /\ UNCHANGED <<storeVars, last_record_count, sync_cycle_counter,
                   main_done, loopVars, histVars, alertVars, legacyVars>>
    /\ UNCHANGED <<caseVars, adding>>

\* monitor_csv_file line 106: the while test of thread t (at its start and
\* after each sleep).
LegacyTest(t) ==
    /\ threads[t] = "test"
    /\ threads' = [threads EXCEPT ![t] = IF monitoring_active THEN "body"
                                        ELSE "done"]
    /\ UNCHANGED <<storeVars, monVars, loopVars, histVars, alertVars>>
    /\ UNCHANGED <<caseVars, adding>>

\* monitor_csv_file lines 107-141: one body of the loop of thread t. The
\* fan-out of a cycle is taken as one step.
monitor_csv_file(t, parse_ok) ==
    /\ threads[t] = "body"
    /\ threads' = [threads EXCEPT ![t] = "test"]
    /\ IF parse_ok /\ Len(table) > last_record_count
       THEN /\ sent' = CountSends(sent,
                          Range(LegacyNew(table, last_record_count))
                            \X active_chat_ids)
            /\ last_record_count' = Len(table)
       ELSE UNCHANGED <<sent, last_record_count>>
    /\ UNCHANGED <<storeVars, monitoring_active, active_chat_ids,
                   sync_cycle_counter, main_done, loopVars, present_at_start,
                   last_call, alertVars>>
    /\ UNCHANGED <<caseVars, adding>>

\* The legacy process after import: no chat is loaded from anywhere.
InitLegacy ==
    /\ \E n \in 0..1 : /\ next_id = n
                       /\ table = [i \in 1..n |-> i]
    /\ chat_rows = [a \in Addr |-> "none"]
    /\ active_chat_ids = {}
    /\ monitoring_active = FALSE
    /\ last_record_count = 0
    /\ sync_cycle_counter = 0
    /\ main_done = FALSE
    /\ InitLoop
    /\ InitHist
    /\ InitAlertIdle
    /\ InitLegacyIdle
    /\ InitCasesIdle
    /\ InitAddIdle

NextLegacy ==
    \/ LegacyInitialize
    \/ \E a \in Addr : LegacyStart(a)
    \/ \E a \in Addr : LegacyStop(a)
    \/ \E t \in 1..MaxThreads : LegacyTest(t)
    \/ \E t \in 1..MaxThreads, ok \in BOOLEAN : monitor_csv_file(t, ok)
    \/ Insert

SpecLegacy == InitLegacy /\ [][NextLegacy]_vars

\* The legacy process once main() has called initialize and a first chat
\* (or two) has started the monitor: one thread at its while test, the
\* count taken from the rows there are.
InitLegacyPoll ==
    /\ \E n \in 0..1 : /\ next_id = n
                       /\ table = [i \in 1..n |-> i]
    /\ chat_rows = [a \in Addr |-> "none"]
    /\ active_chat_ids \in SUBSET Addr \ {{}}
    /\ monitoring_active = TRUE
    /\ last_record_count = Len(table)
    /\ sync_cycle_counter = 0
    /\ main_done = TRUE
    /\ InitLoop
    /\ sent = [p \in RecId \X Addr |-> 0]
    /\ present_at_start = Range(table)
    /\ last_call = Call("none", "")
    /\ InitAlertIdle
    /\ threads = [t \in 1..MaxThreads |-> IF t = 1 THEN "test" ELSE "none"]
    /\ InitCasesIdle
    /\ InitAddIdle

\* The one monitoring thread polls while rows are inserted and deleted.
NextLegacyPoll ==
    \/ \E t \in 1..MaxThreads : LegacyTest(t)
    \/ \E t \in 1..MaxThreads, ok \in BOOLEAN : monitor_csv_file(t, ok)
    \/ Insert
    \/ \E r \in RecId : Delete(r)

SpecLegacyPoll == InitLegacyPoll /\ [][NextLegacyPoll]_vars

\* ------------------------------------------------------------- SpecIdent
\* Rows as the loop sees them: ViolationRecord with the five fields the
\* identifier is made of. ID is None or '' in rows that were written
\* without one.
IdVal == {Null, "", "7", "8"}
Record == [id : IdVal, timestamp : {"t1", "t2"}, factory_area : {"A"},
           inspection_section : {"S"}, violation_type : {"V"}]

\* record.id is truthy.
HasId(record) == record.id # Null /\ record.id # ""

\* A variant that always builds the identifier from the four fields.
get_record_identifier_fields(record) ==
    record.timestamp \o "_" \o record.factory_area \o "_"
      \o record.inspection_section \o "_" \o record.violation_type

\* ViolationMonitor._get_record_identifier.
get_record_identifier(record) ==
    IF HasId(record)
    THEN "id_" \o record.id
    ELSE record.timestamp \o "_" \o record.factory_area \o "_"
           \o record.inspection_section \o "_" \o record.violation_type

Identifier == {get_record_identifier(record) : record \in Record}

\* The scan of one fetch (lines 337-344): the batch and the seen set after
\* the first k records of the fetch.
RECURSIVE ScanTo(_, _, _)
ScanTo(rows, seen, k) ==
    IF k = 0 THEN [batch |-> <<>>, seen |-> seen]
    ELSE LET before == ScanTo(rows, seen, k - 1)
             record_id == get_record_identifier(rows[k])
         IN IF record_id \notin before.seen
            THEN [batch |-> Append(before.batch, rows[k]),
                  seen |-> before.seen \cup {record_id}]
            ELSE before

\* The number of entries of a batch with the identifier x.
RECURSIVE EntriesOf(_, _)
EntriesOf(batch, x) ==
    IF batch = <<>> THEN 0
    ELSE (IF get_record_identifier(Head(batch)) = x THEN 1 ELSE 0)
           + EntriesOf(Tail(batch), x)

\* One cycle of monitor_sql_db on a working store with send calls that
\* return: scan, one send_new_violation_alert per batch entry and
\* subscriber, intersection. sent counts the calls by identifier and chat.
ScanCycle ==
    /\ monitoring_active
    /\ LET scan == ScanTo(table, seen_record_ids, Len(table))
           current == {get_record_identifier(table[i]) : i \in 1..Len(table)}
       IN /\ new_records' = scan.batch
          /\ current_record_ids' = current
          /\ seen_record_ids' = scan.seen \cap current
          /\ sent' = [p \in Identifier \X Addr |->
                        IF p[2] \in active_chat_ids
                        THEN LET n == sent[p] + EntriesOf(scan.batch, p[1])
                             IN IF n > MaxAlerts THEN MaxAlerts ELSE n
                        ELSE sent[p]]
          /\ last_record_count' = Len(table)
    /\ UNCHANGED <<storeVars, monitoring_active, active_chat_ids,
                   sync_cycle_counter, main_done, pc, fresh_chat_ids,
                   last_cycle, rec_i, it_set, it_done, it_raised, stable,
                   present_at_start, last_call, alertVars, legacyVars,
                   caseVars, adding>>

\* A row is written, with or without an ID.
RowInsert(record) ==
    /\ Len(table) < MaxRows
    /\ table' = Append(table, record)
    /\ UNCHANGED <<next_id, chat_rows, monVars, loopVars, histVars, alertVars,
                   legacyVars, caseVars, adding>>

\* A row is deleted.
RowDelete(i) ==
    /\ i \in 1..Len(table)
    /\ table' = SelectIdx(table, [k \in 1..Len(table) |-> k # i], 1)
    /\ UNCHANGED <<next_id, chat_rows, monVars, loopVars, histVars, alertVars,
                   legacyVars, caseVars, adding>>

\* The loop running over an empty table, with one or two subscribers.
InitIdent ==
    /\ table = <<>>
    /\ next_id = 0
    /\ chat_rows = [a \in Addr |-> "active"]
    /\ active_chat_ids = LoadedChats(chat_rows, "ok")
    /\ active_chat_ids # {}
    /\ monitoring_active = TRUE
    /\ last_record_count = 0
    /\ sync_cycle_counter = 0
    /\ main_done = TRUE
    /\ InitLoop
    /\ sent = [p \in Identifier \X Addr |-> 0]
    /\ present_at_start = {}
    /\ last_call = Call("none", "")
    /\ InitAlertIdle
    /\ InitLegacyIdle
    /\ InitCasesIdle
    /\ InitAddIdle

NextIdent ==
    \/ ScanCycle
    \/ \E record \in Record : RowInsert(record)
    \/ \E i \in 1..MaxRows : RowDelete(i)

SpecIdent == InitIdent /\ [][NextIdent]_vars

\* -------------------------------------------------------------- SpecDemo
\* demo_command, lines 720-744: add_demo_violation() clones a random row
\* under a new id (nothing is written when the table is empty), then the
\* handler sleeps 3 seconds.
demo_command_insert(a) ==
    /\ demo.pc = "idle"
    /\ table # <<>>
    /\ next_id < MaxId
    /\ next_id' = next_id + 1
    /\ table' = Append(table, next_id + 1)
    /\ reply' = [reply EXCEPT ![next_id + 1] = ReplyOf(FALSE)]
    /\ demo' = [pc |-> "sleep", chat |-> a, id |-> next_id + 1]
    /\ UNCHANGED <<chat_rows, monVars, loopVars, histVars, alertVars,
                   legacyVars, upd, shown, adding>>

\* demo_command, lines 746-753: parse() again and
\* send_new_violation_alert(updated_records[-1], chat_id). parse has no
\* except, so a failure ends the handler; an empty list sends nothing.
demo_command_send(parse_ok) ==
    /\ demo.pc = "sleep"
    /\ demo' = [demo EXCEPT !.pc = "idle"]
    /\ sent' = IF parse_ok /\ table # <<>>
               THEN CountSends(sent, {<<table[Len(table)], demo.chat>>})
               ELSE sent
    /\ UNCHANGED <<storeVars, monVars, loopVars, present_at_start, last_call,
                   alertVars, legacyVars, reply, upd, shown, adding>>

\* The monitor over a working store while chats ask for the demo and the
\* dashboard deletes rows.
NextDemo ==
    \/ main
    \/ Snapshot(TRUE)
    \/ LoopTop
    \/ SyncRead("ok")
    \/ sync_chat_ids
    \/ Fetch(TRUE)
    \/ \E a \in Addr, res \in AlertResult : DispatchSend(a, res)
    \/ DispatchNext
    \/ \E a \in Addr : demo_command_insert(a)
    \/ \E ok \in BOOLEAN : demo_command_send(ok)
    \/ \E r \in RecId : Delete(r)

SpecDemo == Init /\ [][NextDemo]_vars

\* ================================================================= claims
\* C1 (as stated): a record that is in the store when main() starts the
\* polling loop is never alerted to any chat afterwards, whatever the initial
\* snapshot did.
C1_PreExistingNeverAlerted ==
    \A r \in present_at_start, a \in Addr : sent[<<r, a>>] = 0

\* C2 (as stated): when the dispatch of a cycle ends, every record of the
\* cycle's batch has had exactly one send_new_violation_alert call for every
\* chat that was in the subscriber set all through the dispatch.
C2_ExactlyOneCallPerPair ==
    [][(pc = "dispatch" /\ pc' = "top")
         => \A r \in Range(new_records), a \in stable :
                sent'[<<r, a>>] = 1]_vars

\* C3 (as stated): at most one polling loop is executing at any time (the
\* legacy monitor of src/cctv/main.py).
C3_AtMostOneLoop == Cardinality(LiveThreads) <= 1

\* C4: a start_monitoring(addr) for a chat already in the subscriber set while
\* monitoring is running changes nothing: no loop is started or restarted,
\* the subscriber set, the store, the seen set and the alert counts are as
\* before, so what is detected afterwards is alerted as if the call had not
\* been made; and no pair is ever alerted twice.
C4_SecondStartIdempotent ==
    [][/\ \A a \in Addr :
            (a \in active_chat_ids /\ monitoring_active
               /\ start_monitoring(a, "ok", TRUE))
              => UNCHANGED <<storeVars, monVars, loopVars, sent>>
       /\ \A p \in DOMAIN sent : sent'[p] <= 1]_vars

\* C4's case: the last call was such a second start, the loop is running and
\* a record has been alerted to a chat.
C4_Witness ==
    /\ last_call.op = "start_dup"
    /\ LoopRunning
    /\ \E r \in RecId, a \in active_chat_ids : sent[<<r, a>>] = 1

\* C5 (as stated): once main() has run, whenever the monitor is Running (the
\* flag is up) a polling loop is running.
C5_RunningHasLoop == (main_done /\ monitoring_active) => LoopRunning

\* C6 (as stated): after the stop_monitoring that removed the last chat, and
\* until the next start, no record inserted after that call is alerted to
\* any chat.
C6_NoAlertAfterLastStop ==
    last_call.op = "stop_last"
      => \A r \in RecId, a \in Addr :
             r > last_call.mark => sent[<<r, a>>] = 0

\* C7 (as stated): a start_monitoring(address) on an empty registry leaves
\* get_status at monitoring_active = true and active_subscribers = 1, and
\* (with no start or stop since) a cycle that detects a record inserted after
\* the call ends with exactly one alert of that record to that address.
C7_StartThenOneAlert ==
    [][/\ \A a \in Addr :
            (active_chat_ids = {} /\ start_monitoring(a, "ok", TRUE))
              => /\ get_status'.monitoring_active
                 /\ get_status'.active_subscribers = 1
       /\ (last_call.op = "start_empty" /\ pc = "dispatch" /\ pc' = "top")
            => \A r \in Range(new_records) :
                   r > last_call.mark => sent'[<<r, last_call.chat>>] = 1]_vars

\* The tiers a call has sent on, in order, and those that answered ok.
Tier(i) == alert_log[i][1]
Outcome(i) == alert_log[i][2]

\* C8: the sends of one send_new_violation_alert call come in the order
\* template, image, text; the image send is made only after a failed template
\* send and only for a record with an image; the text send only after a failed
\* template send and, for a record with an image, a failed image send; and no
\* send follows one that succeeded.
C8_TierOrder ==
    \A i \in 1..Len(alert_log) :
        /\ Tier(i) = "template" <=> i = 1
        /\ Tier(i) = "image" =>
              /\ i = 2 /\ alert_img
              /\ alert_log[1] = <<"template", "fail">>
        /\ Tier(i) = "text" =>
              /\ alert_log[1] = <<"template", "fail">>
              /\ IF alert_img
                 THEN i = 3 /\ alert_log[2] = <<"image", "fail">>
                 ELSE i = 2
        /\ i < Len(alert_log) => Outcome(i) = "fail"

\* C8's case: the template send failed, the image send failed, the text send
\* went through and the call returned.
C8_Witness ==
    /\ alert_pc = "returned"
    /\ alert_log = << <<"template", "fail">>, <<"image", "fail">>,
                      <<"text", "ok">> >>

\* C9 (as stated): a call whose template and image sends failed and whose
\* text send succeeded ends as a success with one message delivered; and a
\* call ends as a failure of its pair (monitor_sql_db's except, line 358)
\* only when every applicable tier was tried and none succeeded.
C9_FailureOnlyOnExhaustion ==
    /\ alert_log = << <<"template", "fail">>, <<"image", "fail">>,
                      <<"text", "ok">> >>
         => alert_pc = "returned"
    /\ alert_pc = "raised"
         => /\ Len(alert_log) = IF alert_img THEN 3 ELSE 2
            /\ \A i \in 1..Len(alert_log) : Outcome(i) # "ok"

\* C10: an alert call that raises for one chat leaves the dispatch where it
\* is (same cycle, same record, same batch, that chat counted as done), and a
\* record's turn in which a call raised ends, when no chat of the set has
\* left it meanwhile, only after every chat of the set has had its one call;
\* the next record of the batch is then taken.
C10_FailureIsolated ==
    [][/\ \A a \in Addr :
            DispatchSend(a, "raised")
              => /\ pc' = "dispatch"
                 /\ rec_i' = rec_i
                 /\ new_records' = new_records
                 /\ seen_record_ids' = seen_record_ids
                 /\ it_done' = it_done \cup {a}
       /\ (DispatchNext /\ it_raised # {} /\ active_chat_ids = it_set
              /\ stable = it_set)
            => /\ it_set \subseteq it_done
               /\ \A a \in it_set : sent[<<new_records[rec_i], a>>] = 1
               /\ rec_i < Len(new_records) => rec_i' = rec_i + 1]_vars

\* C10's case: two records in the batch, the call for the first record raised
\* for one chat and the other chat was called all the same.
C10_Witness ==
    /\ pc = "dispatch"
    /\ Len(new_records) = 2
    /\ rec_i = 1
    /\ it_raised # {}
    /\ it_done = Addr
    /\ it_raised # it_done

\* C11: when a cycle whose fetch worked reaches its end (lines 361-371), the
\* seen set is exactly the set of identifiers of the rows of that fetch.
C11_SeenIsLastFetch ==
    [][(pc # "top" /\ pc' = "top" /\ last_cycle' = "completed")
         => seen_record_ids' = IF pc = "fetch" THEN IdentifiersOf(table)
                               ELSE current_record_ids]_vars

\* C11's case: a record that was detected and alerted has been deleted since,
\* a cycle has completed and the seen set has forgotten it.
C11_Witness ==
    /\ pc = "top"
    /\ last_cycle = "completed"
    /\ seen_record_ids = IdentifiersOf(table)
    /\ \E r \in 1..next_id, a \in Addr :
          /\ r \notin Range(table)
          /\ sent[<<r, a>>] = 1

\* C12: a cycle whose fetch fails computes no batch, makes no alert call and
\* leaves the seen set as it was; the thread goes back to the while test and,
\* the flag being up, fetches again; and no pair is ever alerted twice.
C12_FailedFetchSkipsCycle ==
    [][/\ (pc = "fetch" /\ last_cycle' = "fetch_failed")
            => /\ seen_record_ids' = seen_record_ids
               /\ sent' = sent
               /\ new_records' = <<>>
               /\ pc' = "top"
       /\ (pc = "top" /\ last_cycle = "fetch_failed" /\ monitoring_active
             /\ pc' # pc)
            => pc' \in {"sync", "fetch"}
       /\ \A p \in DOMAIN sent : sent'[p] <= 1]_vars

\* C12's case: a fetch has just failed while a record alerted earlier is
\* still in the seen set and a row not yet seen waits in the table.
C12_Witness ==
    /\ pc = "top"
    /\ last_cycle = "fetch_failed"
    /\ \E r \in Range(table), a \in Addr :
          /\ RecordIdentifier(r) \in seen_record_ids
          /\ sent[<<r, a>>] = 1
    /\ \E r \in Range(table) : RecordIdentifier(r) \notin seen_record_ids

\* C13: the polling thread returns only from its while test and only with
\* the flag down after a stop_monitoring; whatever fails inside a cycle (the
\* fetch, the resync's query, an alert call, the iteration of the chat set),
\* the thread stays in the loop, and at the while test with the flag up it
\* begins another cycle.
C13_LoopSurvivesFailures ==
    [][/\ (LoopRunning /\ ~LoopRunning')
            => /\ pc = "top"
               /\ ~monitoring_active
               /\ last_call.op \in {"stop", "stop_last"}
       /\ (pc = "top" /\ monitoring_active /\ pc' # pc)
            => pc' \in {"sync", "fetch"}]_vars

\* C13's case: a cycle has just been cut short by an exception and the thread
\* is back at the while test with the flag up.
C13_Witness ==
    /\ pc = "top"
    /\ last_cycle = "aborted"
    /\ monitoring_active
    /\ sync_cycle_counter > 0

\* C14: after the stop_monitoring that removed the last chat, and with no
\* start since, the flag stays down and the thread, the next time it is at
\* its while test, returns: it finishes at most the cycle it was in and
\* begins no other.
C14_StopHaltsBeforeNextCycle ==
    [][/\ (last_call.op = "stop_last" /\ ~monitoring_active /\ pc = "top"
             /\ pc' # pc)
            => pc' = "done"
       /\ (main_done /\ ~monitoring_active /\ monitoring_active')
            => last_call' # last_call]_vars

\* C14's case: the last chat was stopped, the thread has returned, and a row
\* inserted since lies in the table unfetched.
C14_Witness ==
    /\ last_call.op = "stop_last"
    /\ pc = "done"
    /\ \E r \in Range(table) :
          /\ r > last_call.mark
          /\ RecordIdentifier(r) \notin seen_record_ids

\* The place of row r in the table.
PosIn(s, r) == CHOOSE k \in 1..Len(s) : s[k] = r

\* C15: the batch of a cycle lists the new rows in the order of the fetch;
\* an alert call is made only for the record the dispatch is at; the dispatch
\* moves from a record to the next one of the batch only; and no chat has had
\* a call for a record further down the batch.
C15_FetchOrderRecordMajor ==
    [][/\ pc' = "dispatch"
            => /\ rec_i' \in 1..Len(new_records')
               /\ \A i, j \in 1..Len(new_records') :
                     i < j => PosIn(table', new_records'[i])
                                < PosIn(table', new_records'[j])
               /\ \A j \in (rec_i' + 1)..Len(new_records'), a \in Addr :
                     sent'[<<new_records'[j], a>>] = 0
       /\ \A p \in DOMAIN sent :
             sent'[p] # sent[p]
               => pc = "dispatch" /\ p[1] = new_records[rec_i]
       /\ (pc = "dispatch" /\ pc' = "dispatch")
            => /\ new_records' = new_records
               /\ rec_i' \in {rec_i, rec_i + 1}]_vars

\* C15's case: a batch of two records; every chat has had its call for the
\* first and the dispatch has done every chat for the second.
C15_Witness ==
    /\ pc = "dispatch"
    /\ Len(new_records) = 2
    /\ rec_i = 2
    /\ it_done = Addr
    /\ \A a \in Addr : sent[<<new_records[1], a>>] = 1

\* C16: every iteration of the loop counts, whether its fetch works or not;
\* the resync is run by the iteration that brings the count to 12 and by no
\* other, and the count is back at 0 when it is over, so the count is in
\* 0..11 at the end of every iteration; the resync reads the store's active
\* list and makes it the subscriber set, and nothing else in the thread
\* changes that set.
C16_ResyncEveryTwelfth ==
    [][/\ (pc = "top" /\ pc' \in {"sync", "fetch"})
            => /\ sync_cycle_counter' = sync_cycle_counter + 1
               /\ pc' = "sync" <=> sync_cycle_counter' = SyncEvery
       /\ pc' = "top" => sync_cycle_counter' \in 0..(SyncEvery - 1)
       /\ (pc \in {"fetch", "dispatch"})
            => sync_cycle_counter' = sync_cycle_counter
       /\ (pc = "sync" /\ pc' # pc)
            => pc' = "swap" /\ fresh_chat_ids' = ActiveChats(chat_rows)
       /\ (pc = "swap" /\ pc' # pc)
            => /\ pc' = "fetch"
               /\ sync_cycle_counter' = 0
               /\ active_chat_ids' = fresh_chat_ids
       /\ active_chat_ids' # active_chat_ids => pc = "swap"]_vars

\* C16's case: the first record went to one chat only and the second to the
\* other only: between the two the dashboard changed the store's list and a
\* resync brought the change into the subscriber set.
C16_Witness ==
    \E a, b \in Addr :
        /\ a # b
        /\ sent[<<1, a>>] = 1 /\ sent[<<1, b>>] = 0
        /\ sent[<<2, b>>] = 1 /\ sent[<<2, a>>] = 0

\* C17 (as stated): when sync_chat_ids has finished, the subscriber set is
\* exactly the store's current set of active numbers.
C17_SyncEqualsStore ==
    [][(pc = "swap" /\ pc' # pc)
         => active_chat_ids' = ActiveChats(chat_rows')]_vars

\* C18 (as stated): a resync whose read of the store's active list fails
\* while the store has active numbers leaves the subscriber set as it is: it
\* either skips the replacement or is about to put back the set it has.
C18_FailedReadKeepsSet ==
    [][\A db \in DbOutcome \ {"ok"} :
          (SyncRead(db) /\ ActiveChats(chat_rows) # {})
            => /\ active_chat_ids' = active_chat_ids
               /\ pc' = "swap" => fresh_chat_ids' = active_chat_ids]_vars

\* C19 (as stated): a string that is not 8 to 15 digits is turned away by
\* each of add_chat_id, DataParser.add_chat_id and start_monitoring: the
\* call answers False (start_monitoring answers True only when it finds the
\* monitor inactive), the store is not written and the string is not in the
\* subscriber set afterwards.
C19_MalformedRejected ==
    [][\A a \in BadAddr, db \in DbOutcome :
          /\ add_chat_id(a, db)
               => /\ last_call'.op = "add_false"
                  /\ chat_rows' = chat_rows
                  /\ a \notin active_chat_ids'
          /\ DataParser_add_chat_id(a, db)
               => /\ last_call'.op = "store_add_false"
                  /\ chat_rows' = chat_rows
                  /\ a \notin active_chat_ids'
          /\ \A ok \in BOOLEAN :
                start_monitoring(a, db, ok)
                  => /\ monitoring_active' = monitoring_active
                     /\ chat_rows' = chat_rows
                     /\ a \notin active_chat_ids']_vars

\* C20: a call of add_chat_id with a well-formed number that returns leaves
\* the number in the subscriber set, whether the store inserted it (True),
\* had it already or failed to write it (False).
C20_AddAlwaysSubscribes ==
    [][\A a \in AnyAddr, db \in DbOutcome \ {"conn_fail"} :
          (WellFormed(a) /\ add_chat_id(a, db))
            => /\ a \in active_chat_ids'
               /\ last_call'.op \in {"add_true", "add_false"}
               /\ last_call'.op = "add_true"
                    <=> (chat_rows[a] = "none" /\ chat_rows'[a] = "active")]_vars

\* C20's case: add_chat_id has returned False for a number the store has no
\* row of (the write failed), and the number is in the subscriber set.
C20_Witness ==
    /\ last_call.op = "add_false"
    /\ WellFormed(last_call.chat)
    /\ chat_rows[last_call.chat] = "none"
    /\ last_call.chat \in active_chat_ids

\* C21 (as stated): a stop_monitoring(address) call leaves address out of
\* the subscriber set whatever the store did, never removes a row of the
\* subscriber table, and on a working store leaves the row of address, if
\* there is one, inactive.
C21_StopSoftDeletesAndDiscards ==
    [][\A a \in AnyAddr, db \in DbOutcome :
          stop_monitoring(a, db)
            => /\ a \notin active_chat_ids'
               /\ \A b \in Addr : chat_rows[b] # "none"
                                    => chat_rows'[b] # "none"
               /\ (db = "ok" /\ a \in Addr /\ chat_rows[a] # "none")
                    => chat_rows'[a] = "inactive"]_vars

\* C22 (as stated): in every reachable state a monitor whose
\* monitoring_active flag is up has at least one subscriber.
C22_ActiveImpliesSubscribers ==
    monitoring_active => active_chat_ids # {}

\* C23: when update_resolved_status returns True for resolved = true, the id
\* of the row it chose is not in the result of get_unresolved_records, and it
\* comes back into that result only by an update_violation of the dashboard
\* that sets the flag back.
C23_ResolvedLeavesUnresolved ==
    [][/\ (upd.pc = "write" /\ upd'.pc = "idle" /\ upd'.ret = "true"
             /\ upd.resolved)
            => upd.id \notin Range(get_unresolved_records')
       /\ (upd.pc = "idle" /\ upd.ret = "true" /\ upd.resolved
             /\ upd.id \notin Range(get_unresolved_records)
             /\ upd.id \in Range(get_unresolved_records'))
            => update_violation(upd.id, FALSE)]_vars

\* C23's case: the call has returned True for a row that is still in the
\* table, and the list of unresolved records has other rows in it.
C23_Witness ==
    /\ upd.pc = "idle" /\ upd.ret = "true" /\ upd.resolved
    /\ upd.id \in Range(table)
    /\ get_unresolved_records # <<>>

\* C24 (as stated): every update_resolved_status call ends with True or
\* False, never with an exception; True only when the row it chose was in
\* the table and now holds the value asked for; False leaves the store as
\* it was.
C24_UpdateTrueIffUpdated ==
    [][(upd'.pc = "idle" /\ upd' # upd)
         => /\ upd'.ret \in {"true", "false"}
            /\ upd'.ret = "true"
                 => /\ upd.pc = "write" /\ upd.id \in Range(table)
                    /\ reply'[upd.id] = ReplyOf(upd.resolved)
            /\ upd'.ret = "false" => reply' = reply]_vars

\* C25: whatever the table holds, the counts of get_status add up
\* (total_violations = unresolved + resolved, the total being the number of
\* rows), resolution_rate is 0 for an empty table and resolved * 100 / total
\* otherwise, and monitoring_active and active_subscribers are the monitor's
\* flag and the size of its subscriber set.
C25_StatusCountsAddUp ==
    /\ get_status.total_violations = Len(table)
    /\ get_status.total_violations
         = get_status.unresolved + get_status.resolved
    /\ get_status.unresolved
         = Cardinality({i \in 1..Len(table) : ~Resolved(reply[table[i]])})
    /\ IF Len(table) = 0 THEN get_status.resolution_rate = 0
       ELSE /\ get_status.resolution_rate.num = get_status.resolved * 100
            /\ get_status.resolution_rate.den = get_status.total_violations
    /\ get_status.monitoring_active = monitoring_active
    /\ get_status.active_subscribers = Cardinality(active_chat_ids)

\* C25's case: a running monitor with a subscriber over a table that has a
\* resolved row in an older spelling and an unresolved one.
C25_Witness ==
    /\ monitoring_active /\ active_chat_ids # {}
    /\ \E r1, r2 \in Range(table) :
          reply[r1] \in {"True", " true"} /\ ~Resolved(reply[r2])

\* C26 (as stated): a DataParser.add_chat_id that finds a row of the number
\* returns False and inserts nothing, and the subscriber table never holds
\* two rows of one number, however the calls of the monitor and of the
\* dashboard interleave.
C26_OneRowPerAddress ==
    \A a \in Addr : chat_rows[a] \notin {"twice", "twice_inactive"}

\* C27: on a working store remove_chat_id(address) returns True when
\* address has a row, active or not, and address is not in the active list
\* afterwards; it returns False and leaves the table as it is when address
\* has no row.
C27_RemoveReportsRow ==
    [][\A a \in AnyAddr :
          DataParser_remove_chat_id(a, "ok")
            => IF a \in Addr /\ chat_rows[a] # "none"
               THEN /\ last_call'.op = "store_remove_true"
                    /\ a \notin ActiveChats(chat_rows')
                    /\ chat_rows'[a] = "inactive"
               ELSE /\ last_call'.op = "store_remove_false"
                    /\ chat_rows' = chat_rows]_vars

\* C27's case: remove_chat_id has returned True for a number that was
\* subscribed, and its row is still there, inactive.
C27_Witness ==
    /\ last_call.op = "store_remove_true"
    /\ chat_rows[last_call.chat] = "inactive"

\* C28 (as stated): add_chat_id of a number that is not in the active list
\* puts it in the active list, and a remove_chat_id that follows takes the
\* list back to what it was before the add.
C28_AddRemoveRoundTrip ==
    [][\A a \in Addr :
          /\ (a \notin ActiveChats(chat_rows)
                /\ DataParser_add_chat_id(a, "ok"))
               => a \in ActiveChats(chat_rows')
          /\ (last_call.op \in {"store_add_true", "store_add_false"}
                /\ last_call.chat = a
                /\ DataParser_remove_chat_id(a, "ok"))
               => ActiveChats(chat_rows') = ActiveChats(chat_rows) \ {a}]_vars

\* C29 (as stated): when a dispatch ends, however the subscriber set was
\* changed under it, every record of the batch has had a call for every chat
\* registered all through the dispatch, or is not in the seen set, so that
\* a later cycle takes it as new again.
C29_NoMissedNotification ==
    [][(pc = "dispatch" /\ pc' = "top")
         => \A r \in Range(new_records), a \in stable :
               \/ sent'[<<r, a>>] >= 1
               \/ RecordIdentifier(r) \notin seen_record_ids']_vars

\* C30 (as stated): while the loop runs, a row that is in the table and not
\* yet in the seen set (it was inserted after the loop's snapshot) is
\* eventually alerted to every chat that is registered, unless the chat
\* leaves the registry or the loop ends first.
C30_EventuallyDispatched ==
    \A r \in RecId, a \in Addr :
        (/\ LoopRunning /\ pc # "snapshot"
         /\ r \in Range(table)
         /\ RecordIdentifier(r) \notin seen_record_ids
         /\ a \in active_chat_ids)
          ~> (\/ sent[<<r, a>>] >= 1
              \/ a \notin active_chat_ids
              \/ ~LoopRunning)

\* C31: a batch holds only records whose identifier was not in the seen set,
\* each once, and their identifiers are in the seen set before the first
\* delivery; nothing that happens during the deliveries changes the batch or
\* the seen set; and an identifier leaves the seen set only at the end of a
\* cycle whose fetch did not contain it. So a record is batched once for as
\* long as every successful fetch contains it.
C31_BatchedAtMostOnce ==
    [][/\ (pc = "fetch" /\ pc' = "dispatch")
            => \A i \in 1..Len(new_records') :
                  /\ RecordIdentifier(new_records'[i]) \notin seen_record_ids
                  /\ RecordIdentifier(new_records'[i]) \in seen_record_ids'
                  /\ \A j \in 1..Len(new_records') :
                        new_records'[j] = new_records'[i] => j = i
       /\ (pc = "dispatch" /\ pc' = "dispatch")
            => /\ new_records' = new_records
               /\ seen_record_ids' = seen_record_ids
       /\ \A r \in RecId :
             (/\ RecordIdentifier(r) \in seen_record_ids
              /\ RecordIdentifier(r) \notin seen_record_ids')
               => /\ pc' = "top" /\ last_cycle' = "completed"
                  /\ IF pc = "fetch" THEN r \notin Range(table)
                     ELSE RecordIdentifier(r) \notin current_record_ids]_vars

\* C31's case: a second batch is being delivered while the record of an
\* earlier batch, alerted then, is still in the table and is not in it.
C31_Witness ==
    /\ pc = "dispatch"
    /\ new_records = <<2>>
    /\ 1 \in Range(table)
    /\ \E a \in Addr : sent[<<1, a>>] = 1

\* C32 (as stated): the assignment that ends a resync does not take out of
\* the subscriber set a chat that is in it and whose row in the store is
\* active, that is, a chat whose start_monitoring was made after the resync
\* had read the store.
C32_ResyncKeepsFreshSubscriber ==
    [][(pc = "swap" /\ pc' # pc)
         => \A a \in active_chat_ids :
               chat_rows[a] = "active" => a \in active_chat_ids']_vars

\* C33 (as stated): start_monitoring of a chat whose row in the store is
\* soft-deleted leaves the row active, so that the resyncs that follow keep
\* the chat in the subscriber set.
C33_ResubscribeReactivates ==
    [][\A a \in Addr :
          (start_monitoring(a, "ok", TRUE) /\ chat_rows[a] = "inactive")
            => chat_rows'[a] = "active"]_vars

\* C34 (as stated): a resolve or a delete made with a row_index that the
\* list in front of the user shows acts on the record whose id the list
\* shows beside that row_index.
C34_IndexActsOnDisplayed ==
    [][\A p \in shown :
          /\ (update_resolved_status_fetch(p[1], TRUE, TRUE) /\ upd'.pc = "write")
                => upd'.id = p[2]
          /\ (delete_violation(p[1], TRUE) /\ table' # table)
                => p[2] \notin Range(table')]_vars

\* C35 (as stated): when a poll of the count-based monitor has read the
\* store, every record that was inserted while it monitors and is in the
\* store has been alerted exactly once to each subscriber.
C35_LegacyPollAlertsInserted ==
    [][\A t \in 1..MaxThreads :
          monitor_csv_file(t, TRUE)
            => \A r \in Range(table) \ present_at_start, a \in active_chat_ids :
                  sent'[<<r, a>>] = 1]_vars

C37_StopFrame ==
    [][\A a \in Addr :
          stop_monitoring(a, "ok")
            => /\ active_chat_ids' = active_chat_ids \ {a}
               /\ UNCHANGED <<pc, seen_record_ids, new_records,
                              current_record_ids, rec_i, fresh_chat_ids,
                              last_record_count, sync_cycle_counter, table>>
               /\ (active_chat_ids \ {a} # {})
                     => /\ ~stop_monitoring_returns(a)
                        /\ monitoring_active' = monitoring_active
               /\ stop_monitoring_returns(a) <=> active_chat_ids' = {}
               /\ stop_monitoring_returns(a) => ~monitoring_active']_vars

\* One of two subscribers has stopped while the loop is delivering a batch:
\* the other is still subscribed and the monitor is active.
C37_Witness ==
    /\ last_call.op = "stop"
    /\ pc = "dispatch"
    /\ monitoring_active
    /\ Cardinality(active_chat_ids) = 1
    /\ \E a \in Addr : chat_rows[a] = "inactive" /\ a \notin active_chat_ids

\* C38: a step of the polling thread leaves every row of the violation
\* table and of the subscriber table as it is, and leaves the monitoring
\* flag alone; it replaces the in-memory subscriber set only in the
\* assignment that ends a resync.
C38_PollOnlyReads ==
    [][PollCycleStep
         => /\ UNCHANGED <<table, next_id, reply, chat_rows>>
            /\ monitoring_active' = monitoring_active
            /\ (active_chat_ids' # active_chat_ids => pc = "swap")]_vars

\* Records have been fetched and marked seen, and the cycle under way has
\* resynced to a set that is not the store's any more.
C38_Witness ==
    /\ pc = "fetch"
    /\ sync_cycle_counter = 0
    /\ seen_record_ids # {}
    /\ table # <<>>
    /\ active_chat_ids # ActiveChats(chat_rows)
    /\ ActiveChats(chat_rows) # {}

\* C39 (as stated): the alert demo_command sends is for the record it has
\* inserted, and that record is alerted to the chat that asked exactly once,
\* the polling loop's alerts included.
C39_DemoAlertedOnce ==
    /\ [][(demo.pc = "sleep" /\ demo'.pc = "idle" /\ sent' # sent)
            => sent'[<<demo.id, demo.chat>>] = sent[<<demo.id, demo.chat>>] + 1]_vars
    /\ [](demo.id # 0 => sent[<<demo.id, demo.chat>>] <= 1)
====
